---- MODULE Spec2Model ----
(***************************************************************************)
(* Model of BinaryMiracle.py: the Assembler (text -> packed 96-bit words), *)
(* the Interpreter (packed words -> memory mutations) and the driver main  *)
(* that runs one after the other and dumps the non-zero memory cells.      *)
(*                                                                         *)
(* Python integers are unbounded and instruction words use bits 0..95, so  *)
(* a word is modelled as an unbounded two's-complement integer:            *)
(*   [neg |-> FALSE, bits |-> S]  is  SUM 2^b over b in S                  *)
(*   [neg |-> TRUE,  bits |-> S]  is  -(1 + SUM 2^b over b in S)           *)
(* (for a negative integer, bits holds the positions that are 0).          *)
(* Source text is a sequence of symbols: " " and "\t" are whitespace,      *)
(* "\n" ends a line, ";" , "-", "+", the digits, and one symbol for each   *)
(* run of letters (a mnemonic such as "LOAD_CONSTANT", or "FOO", "x").     *)
(***************************************************************************)
EXTENDS Integers, Sequences, FiniteSets, TLC

\* ------------------------------------------------------------------------
\* Bounds of the model
\* ------------------------------------------------------------------------

\* Interpreter(memory_size): number of cells of the memory array.
MemorySize == 8

\* Longest source text, in lines, drawn exhaustively from the line alphabet.
MaxLines == 3

\* ------------------------------------------------------------------------
\* Python integer arithmetic on words: <<, |, >>, &, int -> word, word -> int
\* ------------------------------------------------------------------------

RECURSIVE Pow2(_)
Pow2(n) == IF n = 0 THEN 1 ELSE 2 * Pow2(n - 1)

\* The one-bits of n * 2^i, for a native integer n >= 0
RECURSIVE BitsFrom(_, _)
BitsFrom(n, i) ==
    IF n = 0 THEN {}
    ELSE (IF n % 2 = 1 THEN {i} ELSE {}) \cup BitsFrom(n \div 2, i + 1)

\* The one-bits of a native integer n >= 0
BitsOf(n) == BitsFrom(n, 0)

FromInt(n) ==
    IF n >= 0 THEN [neg |-> FALSE, bits |-> BitsOf(n)]
              ELSE [neg |-> TRUE, bits |-> BitsOf(-n - 1)]

RECURSIVE SumBits(_)
SumBits(S) ==
    IF S = {} THEN 0
    ELSE LET b == CHOOSE x \in S : TRUE IN Pow2(b) + SumBits(S \ {b})

ToInt(w) == IF w.neg THEN -(1 + SumBits(w.bits)) ELSE SumBits(w.bits)

\* x << k
Shl(x, k) ==
    IF x.neg THEN [neg |-> TRUE, bits |-> {b + k : b \in x.bits} \cup 0..(k - 1)]
             ELSE [neg |-> FALSE, bits |-> {b + k : b \in x.bits}]

\* x >> k (arithmetic shift: floor division by 2^k)
Shr(x, k) == [neg |-> x.neg, bits |-> {b - k : b \in {c \in x.bits : c >= k}}]

\* x | y
Or(x, y) ==
    CASE ~x.neg /\ ~y.neg -> [neg |-> FALSE, bits |-> x.bits \cup y.bits]
      [] ~x.neg /\ y.neg  -> [neg |-> TRUE, bits |-> y.bits \ x.bits]
      [] x.neg /\ ~y.neg  -> [neg |-> TRUE, bits |-> x.bits \ y.bits]
      [] x.neg /\ y.neg   -> [neg |-> TRUE, bits |-> x.bits \cap y.bits]

\* x & y
And(x, y) ==
    CASE ~x.neg /\ ~y.neg -> [neg |-> FALSE, bits |-> x.bits \cap y.bits]
      [] ~x.neg /\ y.neg  -> [neg |-> FALSE, bits |-> x.bits \ y.bits]
      [] x.neg /\ ~y.neg  -> [neg |-> FALSE, bits |-> y.bits \ x.bits]
      [] x.neg /\ y.neg   -> [neg |-> TRUE, bits |-> x.bits \cup y.bits]

\* (instruction >> shift) & mask, as a native integer
Field(instruction, shift, mask) == ToInt(And(Shr(instruction, shift), FromInt(mask)))

\* |x| as a set of one-bits
Magnitude(x) ==
    IF ~x.neg THEN x.bits
    ELSE LET p == CHOOSE i \in 0..(Cardinality(x.bits)) :
                      i \notin x.bits /\ \A j \in 0..(i - 1) : j \in x.bits
         IN  (x.bits \ 0..(p - 1)) \cup {p}

BitLength(S) == IF S = {} THEN 0 ELSE 1 + (CHOOSE b \in S : \A c \in S : c <= b)

\* f"{encoded:096b}": sign, then binary digits, zero-padded to 96 characters
Format096b(x) ==
    LET m == Magnitude(x)
        sign == IF x.neg THEN <<"-">> ELSE <<>>
        width == IF BitLength(m) > 96 - Len(sign) THEN BitLength(m)
                 ELSE 96 - Len(sign)
    IN  sign \o [i \in 1..width |-> IF (width - i) \in m THEN "1" ELSE "0"]

\* instruction.to_bytes(12, byteorder='big') raises OverflowError for a
\* negative integer and for one that needs more than 96 bits
ToBytesOverflows(x) == x.neg \/ BitLength(x.bits) > 96

\* instruction.to_bytes(12, byteorder='big'): 12 bytes, most significant first
ToBytes12(x) ==
    [i \in 1..12 |->
        SumBits({b - 8 * (12 - i) : b \in {c \in x.bits : c \div 8 = 12 - i}})]

\* ------------------------------------------------------------------------
\* Python string operations on symbol sequences
\* ------------------------------------------------------------------------

Whitespace == {" ", "\t"}

Digits == {"0", "1", "2", "3", "4", "5", "6", "7", "8", "9"}

DigitValue ==
    ("0" :> 0) @@ ("1" :> 1) @@ ("2" :> 2) @@ ("3" :> 3) @@ ("4" :> 4) @@
    ("5" :> 5) @@ ("6" :> 6) @@ ("7" :> 7) @@ ("8" :> 8) @@ ("9" :> 9)

\* source_code.splitlines(): pieces between "\n", no empty piece after the
\* last "\n"
RECURSIVE splitlines(_)
splitlines(s) ==
    IF s = <<>> THEN <<>>
    ELSE LET brk == {i \in 1..Len(s) : s[i] = "\n"}
         IN  IF brk = {} THEN <<s>>
             ELSE LET n == CHOOSE i \in brk : \A j \in brk : i <= j
                  IN  <<SubSeq(s, 1, n - 1)>> \o splitlines(SubSeq(s, n + 1, Len(s)))

\* line.strip()
strip(line) ==
    LET keep == {i \in 1..Len(line) : line[i] \notin Whitespace}
    IN  IF keep = {} THEN <<>>
        ELSE SubSeq(line, CHOOSE i \in keep : \A j \in keep : i <= j,
                          CHOOSE i \in keep : \A j \in keep : j <= i)

\* line.startswith(";")
startswith_semicolon(line) == Len(line) >= 1 /\ line[1] = ";"

\* line.split(): the maximal runs of non-whitespace symbols
RECURSIVE split(_)
split(line) ==
    LET keep == {i \in 1..Len(line) : line[i] \notin Whitespace}
    IN  IF keep = {} THEN <<>>
        ELSE LET first == CHOOSE i \in keep : \A j \in keep : i <= j
                 gaps  == {i \in first..Len(line) : line[i] \in Whitespace}
                 stop  == IF gaps = {} THEN Len(line) + 1
                          ELSE CHOOSE i \in gaps : \A j \in gaps : i <= j
             IN  <<SubSeq(line, first, stop - 1)>>
                 \o split(SubSeq(line, stop, Len(line)))

\* int(token) succeeds: an optional sign and at least one digit
is_int_literal(token) ==
    LET body == IF Len(token) >= 1 /\ token[1] \in {"-", "+"} THEN Tail(token)
                ELSE token
    IN  Len(body) >= 1 /\ \A i \in 1..Len(body) : body[i] \in Digits

RECURSIVE digits_value(_)
digits_value(ds) ==
    IF ds = <<>> THEN 0
    ELSE 10 * digits_value(SubSeq(ds, 1, Len(ds) - 1)) + DigitValue[ds[Len(ds)]]

\* int(token) for a token that is an integer literal
int(token) ==
    CASE token[1] = "-" -> -digits_value(Tail(token))
      [] token[1] = "+" -> digits_value(Tail(token))
      [] OTHER          -> digits_value(token)

\* str(n) for n >= 0, used to write operands into source text
RECURSIVE str(_)
str(n) ==
    LET d == CHOOSE c \in Digits : DigitValue[c] = n % 10
    IN  IF n < 10 THEN <<d>> ELSE str(n \div 10) \o <<d>>

\* ------------------------------------------------------------------------
\* Assembler: the instruction table and the packing of each instruction
\* ------------------------------------------------------------------------

\* self.instructions: mnemonic -> opcode
instructions ==
    (<<"LOAD_CONSTANT">> :> 7) @@ (<<"LOAD_MEMORY">> :> 12) @@
    (<<"STORE_TO_MEMORY">> :> 53) @@ (<<"SUBTRACT">> :> 38)

\* (opcode << 90) | (addr_b << 63) | (const_c << 45)
EncodeLoadConstant(opcode, addr_b, const_c) ==
    Or(Or(Shl(FromInt(opcode), 90), Shl(FromInt(addr_b), 63)),
       Shl(FromInt(const_c), 45))

\* (opcode << 90) | (addr_b << 63) | (addr_c << 36)
EncodeLoadMemory(opcode, addr_b, addr_c) ==
    Or(Or(Shl(FromInt(opcode), 90), Shl(FromInt(addr_b), 63)),
       Shl(FromInt(addr_c), 36))

\* (opcode << 90) | (addr_b << 63) | (addr_c << 36)
EncodeStoreToMemory(opcode, addr_b, addr_c) ==
    Or(Or(Shl(FromInt(opcode), 90), Shl(FromInt(addr_b), 63)),
       Shl(FromInt(addr_c), 36))

\* EncodeSubtract with the offset placed one bit too low (offset_d << 27)
EncodeSubtract_OffsetShift27(opcode, addr_b, addr_c, offset_d, addr_e) ==
    Or(Or(Or(Or(Shl(FromInt(opcode), 90), Shl(FromInt(addr_b), 63)),
             Shl(FromInt(addr_c), 36)),
          Shl(FromInt(offset_d), 27)),
       Shl(FromInt(addr_e), 1))

\* (opcode << 90) | (addr_b << 63) | (addr_c << 36) | (offset_d << 28) | (addr_e << 1)
EncodeSubtract(opcode, addr_b, addr_c, offset_d, addr_e) ==
    Or(Or(Or(Or(Shl(FromInt(opcode), 90), Shl(FromInt(addr_b), 63)),
             Shl(FromInt(addr_c), 36)),
          Shl(FromInt(offset_d), 28)),
       Shl(FromInt(addr_e), 1))

\* ------------------------------------------------------------------------
\* Interpreter: field extraction, list indexing and the four operations
\* ------------------------------------------------------------------------

\* (instruction >> 90) & 0x3F
DecodeOpcode(instruction) == Field(instruction, 90, 63)

\* (instruction >> 63) & 0x7FFFFFF
DecodeAddrB(instruction) == Field(instruction, 63, 134217727)

\* (instruction >> 45) & 0x3FFFF
DecodeConstC(instruction) == Field(instruction, 45, 262143)

\* (instruction >> 36) & 0x7FFFFFF
DecodeAddrC(instruction) == Field(instruction, 36, 134217727)

\* (instruction >> 28) & 0xFF
DecodeOffsetD(instruction) == Field(instruction, 28, 255)

\* (instruction >> 1) & 0x7FFFFFF
DecodeAddrE(instruction) == Field(instruction, 1, 134217727)

\* A Python list of MemorySize cells accepts the subscripts -MemorySize ..
\* MemorySize - 1; any other raises IndexError.
InBounds(i) == -MemorySize <= i /\ i < MemorySize

\* The cell a valid subscript names: a negative one counts from the end.
Cell(i) == IF i < 0 THEN i + MemorySize ELSE i

\* [0] * memory_size
ZeroMemory == [i \in 0..(MemorySize - 1) |-> 0]

\* The subscripts an instruction evaluates, in evaluation order, up to and
\* including the first one that raises IndexError.
RECURSIVE Evaluated(_)
Evaluated(subs) ==
    IF subs = <<>> THEN <<>>
    ELSE IF InBounds(Head(subs)) THEN <<Head(subs)>> \o Evaluated(Tail(subs))
    ELSE <<Head(subs)>>

Faults(subs) == \E i \in 1..Len(subs) : ~InBounds(subs[i])

\* self.memory[addr_b] = const_c
LoadConstantSubscripts(mem, addr_b) == <<addr_b>>

LoadConstant(mem, addr_b, const_c) == [mem EXCEPT ![Cell(addr_b)] = const_c]

\* self.memory[addr_b] = self.memory[addr_c]
LoadMemorySubscripts(mem, addr_b, addr_c) == <<addr_c, addr_b>>

\* LoadMemory copying in the wrong direction
LoadMemory_Reversed(mem, addr_b, addr_c) ==
    [mem EXCEPT ![Cell(addr_c)] = mem[Cell(addr_b)]]

LoadMemory(mem, addr_b, addr_c) == [mem EXCEPT ![Cell(addr_b)] = mem[Cell(addr_c)]]

\* target_addr = self.memory[addr_b]
TargetAddr(mem, addr_b) == mem[Cell(addr_b)]

\* target_addr = self.memory[addr_b]; self.memory[target_addr] = self.memory[addr_c]
StoreToMemorySubscripts(mem, addr_b, addr_c) ==
    IF InBounds(addr_b) THEN <<addr_b, addr_c, TargetAddr(mem, addr_b)>>
    ELSE <<addr_b>>

\* StoreToMemory read as a direct store to addr_b
StoreToMemory_Direct(mem, addr_b, addr_c) ==
    [mem EXCEPT ![Cell(addr_b)] = mem[Cell(addr_c)]]

StoreToMemory(mem, addr_b, addr_c) ==
    [mem EXCEPT ![Cell(TargetAddr(mem, addr_b))] = mem[Cell(addr_c)]]

\* first_operand = self.memory[addr_c + offset_d]; second_operand = self.memory[addr_e]
\* self.memory[addr_b] = first_operand - second_operand
SubtractSubscripts(mem, addr_b, addr_c, offset_d, addr_e) ==
    <<addr_c + offset_d, addr_e, addr_b>>

\* Subtract without the offset: memory[addr_c] - memory[addr_e]
Subtract_IgnoresOffset(mem, addr_b, addr_c, offset_d, addr_e) ==
    [mem EXCEPT ![Cell(addr_b)] = mem[Cell(addr_c)] - mem[Cell(addr_e)]]

Subtract(mem, addr_b, addr_c, offset_d, addr_e) ==
    [mem EXCEPT ![Cell(addr_b)] = mem[Cell(addr_c + offset_d)] - mem[Cell(addr_e)]]

\* for i in range(start, end): if self.memory[i] != 0: dump[f"address_{i}"] = self.memory[i]
\* The key f"address_{i}" is modelled as <<"address_", i>>.
get_memory_dump_faults(start, end) == \E i \in start..(end - 1) : ~InBounds(i)

\* get_memory_dump without the test memory[i] != 0
RECURSIVE get_memory_dump_from_unfiltered(_, _, _, _)
get_memory_dump_from_unfiltered(mem, i, end, dump) ==
    IF i >= end THEN dump
    ELSE get_memory_dump_from_unfiltered(mem, i + 1, end,
            [k \in DOMAIN dump \cup {<<"address_", i>>} |->
                IF k = <<"address_", i>> THEN mem[Cell(i)] ELSE dump[k]])

RECURSIVE get_memory_dump_from(_, _, _, _)
get_memory_dump_from(mem, i, end, dump) ==
    IF i >= end THEN dump
    ELSE get_memory_dump_from(mem, i + 1, end,
            IF mem[Cell(i)] # 0
            THEN [k \in DOMAIN dump \cup {<<"address_", i>>} |->
                    IF k = <<"address_", i>> THEN mem[Cell(i)] ELSE dump[k]]
            ELSE dump)

get_memory_dump(mem, start, end) == get_memory_dump_from(mem, start, end, <<>>)

\* ------------------------------------------------------------------------
\* Source texts the model is run on
\* ------------------------------------------------------------------------

\* "MNEMONIC op1 op2 ..." with non-negative operands
RECURSIVE OperandText(_)
OperandText(ops) ==
    IF ops = <<>> THEN <<>> ELSE <<" ">> \o str(Head(ops)) \o OperandText(Tail(ops))

Line(mnemonic, ops) == <<mnemonic>> \o OperandText(ops)

\* The lines every text of up to MaxLines lines is drawn from.
LineAlphabet ==
    { Line("LOAD_CONSTANT", <<0, 5>>),
      <<"\t", " ", "LOAD_CONSTANT", " ", " ", "1", " ", "3", " ">>,
      Line("LOAD_MEMORY", <<1, 0>>),
      Line("STORE_TO_MEMORY", <<1, 0>>),
      Line("SUBTRACT", <<1, 0, 1, 0>>),
      Line("SUBTRACT", <<0, 1, 0, 0>>),
      Line("LOAD_MEMORY", <<134217728, 0>>),
      Line("FOO", <<1, 2>>),
      <<>>,
      <<";", " ", "note">>,
      Line("LOAD_CONSTANT", <<1>>) }

RECURSIVE JoinLines(_)
JoinLines(ls) ==
    IF ls = <<>> THEN <<>> ELSE Head(ls) \o <<"\n">> \o JoinLines(Tail(ls))

Texts == {JoinLines(ls) : ls \in UNION {[1..k -> LineAlphabet] : k \in 0..MaxLines}}

\* The three end-to-end programs
Scenario1 ==
    JoinLines(<<Line("LOAD_CONSTANT", <<0, 5>>), Line("LOAD_CONSTANT", <<1, 3>>),
                Line("SUBTRACT", <<2, 0, 0, 1>>)>>)

Scenario2 ==
    JoinLines(<<Line("LOAD_CONSTANT", <<0, 10>>), Line("LOAD_MEMORY", <<1, 0>>)>>)

Scenario3 ==
    JoinLines(<<Line("LOAD_CONSTANT", <<0, 5>>), Line("LOAD_CONSTANT", <<5, 99>>),
                Line("LOAD_CONSTANT", <<1, 1>>), Line("STORE_TO_MEMORY", <<0, 1>>)>>)

\* Operand values at and around the limits of the fields:
\* 27-bit addresses, the 18-bit constant, the 8-bit offset.
AddressValues == {0, 1, 5, 89478485, 134217727, 134217728, 134217733}

ConstantValues == {0, 1, 99, 174762, 262143, 262144, 262149}

OffsetValues == {0, 1, 170, 255, 256, 261}

\* One-instruction texts over the operand values
SingleInstructionTexts ==
    {Line("LOAD_CONSTANT", <<b, c>>) : b \in AddressValues, c \in ConstantValues}
    \cup {Line("LOAD_MEMORY", <<b, c>>) : b \in AddressValues, c \in AddressValues}
    \cup {Line("STORE_TO_MEMORY", <<b, c>>) : b \in AddressValues, c \in AddressValues}
    \cup {Line("SUBTRACT", <<b, c, d, e>>) :
            b \in {0, 134217727, 134217728}, c \in AddressValues,
            d \in OffsetValues, e \in AddressValues}

\* Further texts: no final newline, a line of whitespace, signed operands,
\* non-numeric operands, a trailing comment, a commented-out instruction,
\* a mnemonic run together with a digit, subscripts outside the array
OtherTexts ==
    { Line("LOAD_CONSTANT", <<0, 5>>) \o <<"\n">> \o Line("LOAD_MEMORY", <<1, 0>>),
      <<" ", "\t", "\n">> \o Line("LOAD_CONSTANT", <<0, 5>>),
      <<"LOAD_CONSTANT", " ", "0", " ", "-", "1", "\n">>,
      <<"LOAD_CONSTANT", " ", "+", "2", " ", "7", "\n">>,
      <<"LOAD_MEMORY", " ", "0", " ", "x", "\n">>,
      <<"LOAD_MEMORY", " ", "x", " ", "0", "\n">>,
      <<"SUBTRACT", " ", "1", " ", "2", " ", "-", " ", "0", "\n">>,
      <<"STORE_TO_MEMORY", " ", "1", " ", "0", "x", "\n">>,
      Line("LOAD_CONSTANT", <<0, 5>>) \o <<" ", ";", " ", "note", "\n">>,
      <<";", "LOAD_CONSTANT", " ", "0", " ", "5", "\n">>,
      <<"LOAD_CONSTANT", "5", " ", "0", " ", "5", "\n">>,
      JoinLines(<<Line("LOAD_CONSTANT", <<1, 100>>), Line("STORE_TO_MEMORY", <<1, 0>>)>>),
      JoinLines(<<Line("LOAD_CONSTANT", <<0, 100>>), Line("SUBTRACT", <<1, 1, 0, 0>>),
                  Line("STORE_TO_MEMORY", <<1, 0>>)>>) }

\* main's <memory_dump_range> arguments
DumpRanges ==
    { <<0, 4>>, <<0, MemorySize>>, <<2, 6>>, <<3, 3>>, <<5, 2>>,
      <<MemorySize - 1, MemorySize + 1>> }

\* ------------------------------------------------------------------------
\* State
\* ------------------------------------------------------------------------

VARIABLES
    source_code,       \* main: the text read from the input file
    lines,             \* assemble: source_code.splitlines(), the list the loop walks
    pc,                \* main: "assemble", "write_binary", "execute", "dump",
                       \*       "done" (results written) or "failed" (exception)
    line_no,           \* assemble: lines of the text already consumed
    asm_machine_code,  \* assemble: local machine_code
    asm_log,           \* assemble: local log
    machine_code,      \* main: words returned by assemble
    log,               \* main: trace returned by assemble
    binary_file,       \* main: bytes written to the binary file
    memory,            \* Interpreter.memory
    exec_log,          \* Interpreter.log
    index,             \* execute: instructions already processed
    locals,            \* execute: the loop's index, opcode and operands as last
                       \*          assigned (-1: not yet assigned)
    subscripts,        \* execute: subscripts of self.memory evaluated by the
                       \*          instruction processed last
    dump_range,        \* main: <<start, end>> passed to get_memory_dump
    memory_dump,       \* main: result of get_memory_dump
    error              \* the exception raised, if any

vars == <<source_code, lines, pc, line_no, asm_machine_code, asm_log, machine_code, log,
          binary_file, memory, exec_log, index, locals, subscripts, dump_range,
          memory_dump, error>>

asm_vars == <<line_no, asm_machine_code, asm_log>>

exec_vars == <<memory, exec_log, index, locals, subscripts>>

NoError == [type |-> "none", command |-> <<>>, where |-> 0, opcode |-> 0]

\* ValueError(f"Unknown instruction '{command}' on line {line_no}")
UnknownInstruction(command, n) ==
    [type |-> "ValueError: Unknown instruction", command |-> command, where |-> n,
     opcode |-> 0]

\* ValueError raised by unpacking parts into the wrong number of names
UnpackError ==
    [type |-> "ValueError: unpack", command |-> <<>>, where |-> 0, opcode |-> 0]

\* ValueError raised by int() on a token that is no integer literal
IntError(token) ==
    [type |-> "ValueError: invalid literal for int()", command |-> token, where |-> 0,
     opcode |-> 0]

\* OverflowError raised by to_bytes for the word at position n (0-based)
OverflowError(n) ==
    [type |-> "OverflowError", command |-> <<>>, where |-> n, opcode |-> 0]

\* RuntimeError(f"Unknown opcode {opcode} at index {index}.")
UnknownOpcode(opcode, n) ==
    [type |-> "RuntimeError: Unknown opcode", command |-> <<>>, where |-> n,
     opcode |-> opcode]

\* IndexError raised by a subscript outside the array
IndexError ==
    [type |-> "IndexError", command |-> <<>>, where |-> 0, opcode |-> 0]

InitWith(texts) ==
    /\ source_code \in texts
    /\ lines = splitlines(source_code)
    /\ pc = "assemble"
    /\ line_no = 0
    /\ asm_machine_code = <<>>
    /\ asm_log = <<>>
    /\ machine_code = <<>>
    /\ log = <<>>
    /\ binary_file = <<>>
    /\ memory = ZeroMemory
    /\ exec_log = <<>>
    /\ index = 0
    /\ locals = [index |-> -1, opcode |-> -1, addr_b |-> -1, addr_c |-> -1, const_c |-> -1,
                 offset_d |-> -1, addr_e |-> -1]
    /\ subscripts = <<>>
    /\ dump_range = <<0, 0>>
    /\ memory_dump = <<>>
    /\ error = NoError

Init == InitWith(Texts \cup {Scenario1, Scenario2, Scenario3}
                 \cup SingleInstructionTexts \cup OtherTexts)

\* ------------------------------------------------------------------------
\* Assembler.assemble: one action per kind of loop iteration
\* ------------------------------------------------------------------------

\* The line the loop is at, after line.strip(), and its 1-based number
CurrentLine == strip(lines[line_no + 1])

AtLine == pc = "assemble" /\ line_no < Len(lines)

AsmRaise(err) ==
    /\ error' = err
    /\ pc' = "failed"
    /\ UNCHANGED <<source_code, lines, asm_vars, machine_code, log, binary_file, exec_vars,
                   dump_range, memory_dump>>

\* AsmEmit numbering the trace by emitted instruction, not by source line
AsmEmit_CountsInstructions(encoded) ==
    /\ asm_machine_code' = Append(asm_machine_code, encoded)
    /\ asm_log' = Append(asm_log, [line |-> Len(asm_log) + 1,
                                   instruction |-> CurrentLine,
                                   binary |-> Format096b(encoded)])
    /\ line_no' = line_no + 1
    /\ UNCHANGED <<source_code, lines, pc, machine_code, log, binary_file, exec_vars,
                   dump_range, memory_dump, error>>

AsmEmit(encoded) ==
    /\ asm_machine_code' = Append(asm_machine_code, encoded)
    /\ asm_log' = Append(asm_log, [line |-> line_no + 1, instruction |-> CurrentLine,
                                   binary |-> Format096b(encoded)])
    /\ line_no' = line_no + 1
    /\ UNCHANGED <<source_code, lines, pc, machine_code, log, binary_file, exec_vars,
                   dump_range, memory_dump, error>>

\* The position of the first operand token that int() rejects, or 0
BadOperand(parts) ==
    LET bad == {i \in 2..Len(parts) : ~is_int_literal(parts[i])}
    IN  IF bad = {} THEN 0 ELSE CHOOSE i \in bad : \A j \in bad : i <= j

\* if not line or line.startswith(";"): continue
AsmSkip ==
    /\ AtLine
    /\ CurrentLine = <<>> \/ startswith_semicolon(CurrentLine)
    /\ line_no' = line_no + 1
    /\ UNCHANGED <<source_code, lines, pc, asm_machine_code, asm_log, machine_code, log,
                   binary_file, exec_vars, dump_range, memory_dump, error>>

Command == split(CurrentLine)[1]

AtInstruction == AtLine /\ CurrentLine # <<>> /\ ~startswith_semicolon(CurrentLine)

\* AsmUnknownInstruction reporting the 0-based line number
AsmUnknownInstruction_ZeroBased ==
    /\ AtInstruction
    /\ Command \notin DOMAIN instructions
    /\ AsmRaise(UnknownInstruction(Command, line_no))

\* if command not in self.instructions: raise ValueError(...)
AsmUnknownInstruction ==
    /\ AtInstruction
    /\ Command \notin DOMAIN instructions
    /\ AsmRaise(UnknownInstruction(Command, line_no + 1))

\* _, addr_b, const_c = parts; int() each; pack; append
AsmLoadConstant ==
    /\ AtInstruction
    /\ Command = <<"LOAD_CONSTANT">>
    /\ LET parts == split(CurrentLine)
       IN  IF Len(parts) # 3 THEN AsmRaise(UnpackError)
           ELSE IF BadOperand(parts) # 0
                THEN AsmRaise(IntError(parts[BadOperand(parts)]))
           ELSE AsmEmit(EncodeLoadConstant(instructions[Command], int(parts[2]), int(parts[3])))

\* _, addr_b, addr_c = parts; int() each; pack; append
AsmLoadMemory ==
    /\ AtInstruction
    /\ Command = <<"LOAD_MEMORY">>
    /\ LET parts == split(CurrentLine)
       IN  IF Len(parts) # 3 THEN AsmRaise(UnpackError)
           ELSE IF BadOperand(parts) # 0
                THEN AsmRaise(IntError(parts[BadOperand(parts)]))
           ELSE AsmEmit(EncodeLoadMemory(instructions[Command], int(parts[2]), int(parts[3])))

\* _, addr_b, addr_c = parts; int() each; pack; append
AsmStoreToMemory ==
    /\ AtInstruction
    /\ Command = <<"STORE_TO_MEMORY">>
    /\ LET parts == split(CurrentLine)
       IN  IF Len(parts) # 3 THEN AsmRaise(UnpackError)
           ELSE IF BadOperand(parts) # 0
                THEN AsmRaise(IntError(parts[BadOperand(parts)]))
           ELSE AsmEmit(EncodeStoreToMemory(instructions[Command], int(parts[2]), int(parts[3])))

\* _, addr_b, addr_c, offset_d, addr_e = parts; int() each; pack; append
AsmSubtract ==
    /\ AtInstruction
    /\ Command = <<"SUBTRACT">>
    /\ LET parts == split(CurrentLine)
       IN  IF Len(parts) # 5 THEN AsmRaise(UnpackError)
           ELSE IF BadOperand(parts) # 0
                THEN AsmRaise(IntError(parts[BadOperand(parts)]))
           ELSE AsmEmit(EncodeSubtract(instructions[Command], int(parts[2]), int(parts[3]),
                                   int(parts[4]), int(parts[5])))

\* return machine_code, log
AsmReturn ==
    /\ pc = "assemble"
    /\ line_no = Len(lines)
    /\ machine_code' = asm_machine_code
    /\ log' = asm_log
    /\ pc' = "write_binary"
    /\ UNCHANGED <<source_code, lines, asm_vars, binary_file, exec_vars, dump_range,
                   memory_dump, error>>

\* ------------------------------------------------------------------------
\* main: writing the binary file
\* ------------------------------------------------------------------------

RECURSIVE BytesOf(_)
BytesOf(words) ==
    IF words = <<>> THEN <<>> ELSE ToBytes12(Head(words)) \o BytesOf(Tail(words))

\* for instruction in machine_code: f.write(instruction.to_bytes(12, byteorder='big'))
WriteBinary ==
    /\ pc = "write_binary"
    /\ LET bad == {i \in 1..Len(machine_code) : ToBytesOverflows(machine_code[i])}
       IN  IF bad = {}
           THEN /\ binary_file' = BytesOf(machine_code)
                /\ pc' = "execute"
                /\ UNCHANGED error
           ELSE LET n == CHOOSE i \in bad : \A j \in bad : i <= j
                IN  /\ binary_file' = BytesOf(SubSeq(machine_code, 1, n - 1))
                    /\ pc' = "failed"
                    /\ error' = OverflowError(n - 1)
    /\ UNCHANGED <<source_code, lines, asm_vars, machine_code, log, exec_vars, dump_range,
                   memory_dump>>

\* ------------------------------------------------------------------------
\* Interpreter.execute: one action per kind of loop iteration
\* ------------------------------------------------------------------------

Instruction == machine_code[index + 1]

AtWord == pc = "execute" /\ index < Len(machine_code)

\* The instruction's memory accesses: IndexError at the first subscript
\* outside the array, else the write and the trace entry
ExecAccess(subs, mem, op, args) ==
    /\ subscripts' = Evaluated(subs)
    /\ IF Faults(subs)
       THEN /\ error' = IndexError
            /\ pc' = "failed"
            /\ UNCHANGED <<memory, exec_log, index>>
       ELSE /\ memory' = mem
            /\ exec_log' = Append(exec_log, [index |-> index, op |-> op, args |-> args])
            /\ index' = index + 1
            /\ UNCHANGED <<pc, error>>
    /\ UNCHANGED <<source_code, lines, asm_vars, machine_code, log, binary_file, dump_range,
                   memory_dump>>

\* if opcode == 7
ExecLoadConstant ==
    /\ AtWord
    /\ DecodeOpcode(Instruction) = 7
    /\ LET addr_b == DecodeAddrB(Instruction)
           const_c == DecodeConstC(Instruction)
       IN  /\ locals' = [locals EXCEPT !.index = index, !.opcode = 7, !.addr_b = addr_b,
                                       !.const_c = const_c]
           /\ ExecAccess(LoadConstantSubscripts(memory, addr_b),
                         LoadConstant(memory, addr_b, const_c),
                         "LOAD_CONSTANT", <<const_c, addr_b>>)

\* elif opcode == 12
ExecLoadMemory ==
    /\ AtWord
    /\ DecodeOpcode(Instruction) = 12
    /\ LET addr_b == DecodeAddrB(Instruction)
           addr_c == DecodeAddrC(Instruction)
       IN  /\ locals' = [locals EXCEPT !.index = index, !.opcode = 12, !.addr_b = addr_b,
                                       !.addr_c = addr_c]
           /\ ExecAccess(LoadMemorySubscripts(memory, addr_b, addr_c),
                         LoadMemory(memory, addr_b, addr_c),
                         "LOAD_MEMORY", <<addr_c, addr_b>>)

\* elif opcode == 53
ExecStoreToMemory ==
    /\ AtWord
    /\ DecodeOpcode(Instruction) = 53
    /\ LET addr_b == DecodeAddrB(Instruction)
           addr_c == DecodeAddrC(Instruction)
       IN  /\ locals' = [locals EXCEPT !.index = index, !.opcode = 53, !.addr_b = addr_b,
                                       !.addr_c = addr_c]
           /\ ExecAccess(StoreToMemorySubscripts(memory, addr_b, addr_c),
                         StoreToMemory(memory, addr_b, addr_c),
                         "STORE_TO_MEMORY",
                         <<StoreToMemory(memory, addr_b, addr_c)[Cell(addr_c)],
                           TargetAddr(memory, addr_b)>>)

\* elif opcode == 38
ExecSubtract ==
    /\ AtWord
    /\ DecodeOpcode(Instruction) = 38
    /\ LET addr_b == DecodeAddrB(Instruction)
           addr_c == DecodeAddrC(Instruction)
           offset_d == DecodeOffsetD(Instruction)
           addr_e == DecodeAddrE(Instruction)
       IN  /\ locals' = [locals EXCEPT !.index = index, !.opcode = 38, !.addr_b = addr_b,
                                       !.addr_c = addr_c, !.offset_d = offset_d,
                                       !.addr_e = addr_e]
           /\ ExecAccess(SubtractSubscripts(memory, addr_b, addr_c, offset_d, addr_e),
                         Subtract(memory, addr_b, addr_c, offset_d, addr_e),
                         "SUBTRACT",
                         <<memory[Cell(addr_c + offset_d)], memory[Cell(addr_e)],
                           memory[Cell(addr_c + offset_d)] - memory[Cell(addr_e)],
                           addr_b>>)

\* ExecUnknownOpcode skipping the word instead of raising
ExecUnknownOpcode_Skips ==
    /\ AtWord
    /\ DecodeOpcode(Instruction) \notin {7, 12, 53, 38}
    /\ locals' = [locals EXCEPT !.index = index, !.opcode = DecodeOpcode(Instruction)]
    /\ index' = index + 1
    /\ UNCHANGED <<source_code, lines, pc, asm_vars, machine_code, log, binary_file, memory,
                   exec_log, subscripts, dump_range, memory_dump, error>>

\* else: raise RuntimeError(f"Unknown opcode {opcode} at index {index}.")
ExecUnknownOpcode ==
    /\ AtWord
    /\ DecodeOpcode(Instruction) \notin {7, 12, 53, 38}
    /\ locals' = [locals EXCEPT !.index = index, !.opcode = DecodeOpcode(Instruction)]
    /\ error' = UnknownOpcode(DecodeOpcode(Instruction), index)
    /\ pc' = "failed"
    /\ UNCHANGED <<source_code, lines, asm_vars, machine_code, log, binary_file, memory,
                   exec_log, index, subscripts, dump_range, memory_dump>>

\* the loop of execute is exhausted
ExecReturn ==
    /\ pc = "execute"
    /\ index = Len(machine_code)
    /\ pc' = "dump"
    /\ UNCHANGED <<source_code, lines, asm_vars, machine_code, log, binary_file, exec_vars,
                   dump_range, memory_dump, error>>

\* ------------------------------------------------------------------------
\* main: memory_dump = interpreter.get_memory_dump(start, end)
\* ------------------------------------------------------------------------

Dump ==
    /\ pc = "dump"
    /\ \E r \in DumpRanges :
          /\ dump_range' = r
          /\ IF get_memory_dump_faults(r[1], r[2])
             THEN /\ error' = IndexError
                  /\ pc' = "failed"
                  /\ UNCHANGED memory_dump
             ELSE /\ memory_dump' = get_memory_dump(memory, r[1], r[2])
                  /\ pc' = "done"
                  /\ UNCHANGED error
    /\ UNCHANGED <<source_code, lines, asm_vars, machine_code, log, binary_file, exec_vars>>

Next ==
    \/ AsmSkip
    \/ AsmUnknownInstruction
    \/ AsmLoadConstant
    \/ AsmLoadMemory
    \/ AsmStoreToMemory
    \/ AsmSubtract
    \/ AsmReturn
    \/ WriteBinary
    \/ ExecLoadConstant
    \/ ExecLoadMemory
    \/ ExecStoreToMemory
    \/ ExecSubtract
    \/ ExecUnknownOpcode
    \/ ExecReturn
    \/ Dump

Spec == Init /\ [][Next]_vars

\* ------------------------------------------------------------------------
\* Vocabulary of the properties
\* ------------------------------------------------------------------------

\* The physical lines of the source text
Lines == splitlines(source_code)

\* Positions from i on (1-based, blank and comment lines counted), in
\* increasing order, of the lines of ls that are neither blank after
\* stripping nor start with ";"
RECURSIVE InstructionLinesFrom(_, _)
InstructionLinesFrom(ls, i) ==
    IF i > Len(ls) THEN <<>>
    ELSE (IF strip(ls[i]) # <<>> /\ ~startswith_semicolon(strip(ls[i]))
          THEN <<i>> ELSE <<>>) \o InstructionLinesFrom(ls, i + 1)

InstructionLines == InstructionLinesFrom(Lines, 1)

\* Field widths of the operands of each mnemonic, in source order
Widths ==
    (<<"LOAD_CONSTANT">> :> <<27, 18>>) @@ (<<"LOAD_MEMORY">> :> <<27, 27>>) @@
    (<<"STORE_TO_MEMORY">> :> <<27, 27>>) @@ (<<"SUBTRACT">> :> <<27, 27, 8, 27>>)

Mnemonic(line) == split(line)[1]

Operands(line) ==
    LET parts == split(line) IN [i \in 1..(Len(parts) - 1) |-> int(parts[i + 1])]

\* A line with a recognized mnemonic, its operand count and integer operands
WellFormed(line) ==
    LET parts == split(line)
    IN  /\ parts[1] \in DOMAIN instructions
        /\ Len(parts) = Len(Widths[parts[1]]) + 1
        /\ \A i \in 2..Len(parts) : is_int_literal(parts[i])

NonNegative(line) == LET a == Operands(line) IN \A i \in DOMAIN a : a[i] >= 0

\* Every operand of an assembled line fits the width of its field
Fits(line) ==
    LET a == Operands(line)
        w == Widths[Mnemonic(line)]
    IN  \A i \in DOMAIN a : 0 <= a[i] /\ a[i] < Pow2(w[i])

\* The operands of an assembled line, each modulo 2^width of its field
Truncated(line) ==
    LET a == Operands(line)
        w == Widths[Mnemonic(line)]
    IN  [i \in DOMAIN a |-> a[i] % Pow2(w[i])]

\* The operands the interpreter extracted for an instruction of this mnemonic
Extracted(mnemonic) ==
    CASE mnemonic = <<"LOAD_CONSTANT">> -> <<locals.addr_b, locals.const_c>>
      [] mnemonic = <<"SUBTRACT">> ->
            <<locals.addr_b, locals.addr_c, locals.offset_d, locals.addr_e>>
      [] OTHER -> <<locals.addr_b, locals.addr_c>>

\* The assembled line whose word the interpreter decoded last
DecodedLine == log[locals.index + 1].instruction

\* assemble returned to main
AssembleReturned ==
    \/ pc \in {"write_binary", "execute", "dump", "done"}
    \/ pc = "failed" /\ error.type \in {"OverflowError", "RuntimeError: Unknown opcode",
                                        "IndexError"}

\* The word a well-formed line packs to
WordOf(line) ==
    LET m  == Mnemonic(line)
        op == instructions[m]
        a  == Operands(line)
    IN  CASE m = <<"LOAD_CONSTANT">> -> EncodeLoadConstant(op, a[1], a[2])
          [] m = <<"LOAD_MEMORY">> -> EncodeLoadMemory(op, a[1], a[2])
          [] m = <<"STORE_TO_MEMORY">> -> EncodeStoreToMemory(op, a[1], a[2])
          [] m = <<"SUBTRACT">> -> EncodeSubtract(op, a[1], a[2], a[3], a[4])

\* Sequence of the positions, among the instruction lines ps of ls, of the
\* lines with an unrecognized mnemonic
UnknownAmong(ls, ps) ==
    SelectSeq(ps, LAMBDA i : Mnemonic(strip(ls[i])) \notin DOMAIN instructions)

\* Position of the first instruction line with an unrecognized mnemonic, or 0
FirstUnknownLine ==
    LET unknown == UnknownAmong(Lines, InstructionLines)
    IN  IF unknown = <<>> THEN 0 ELSE unknown[1]

\* assemble failed at line n with the unknown-instruction error, having
\* consumed the lines before n and handed nothing to main
UnknownInstructionAt(n) ==
    /\ pc = "failed"
    /\ error = UnknownInstruction(Mnemonic(strip(Lines[n])), n)
    /\ line_no = n - 1
    /\ machine_code = <<>>
    /\ log = <<>>

\* The cell an execution trace entry reports as written
WrittenCell(entry) ==
    CASE entry.op = "LOAD_CONSTANT" -> entry.args[2]
      [] entry.op = "LOAD_MEMORY" -> entry.args[2]
      [] entry.op = "STORE_TO_MEMORY" -> Cell(entry.args[2])
      [] entry.op = "SUBTRACT" -> entry.args[4]

\* d holds exactly the non-zero cells of mem in [start, end), with their values
SparseDumpOf(d, mem, start, end) ==
    /\ DOMAIN d = {<<"address_", i>> : i \in {j \in start..(end - 1) : mem[j] # 0}}
    /\ \A k \in DOMAIN d : d[k] = mem[k[2]] /\ d[k] # 0

\* ------------------------------------------------------------------------
\* Properties
\* ------------------------------------------------------------------------

\* C1: round trip. For every word the interpreter decodes, if all operands
\* of the source line it was assembled from fit their field widths, the
\* opcode extracted is the mnemonic's opcode and the operands extracted are
\* the operands written in the source.
C1_RoundTrip ==
    locals.index >= 0 =>
        (Fits(DecodedLine) =>
            /\ locals.opcode = instructions[Mnemonic(DecodedLine)]
            /\ Extracted(Mnemonic(DecodedLine)) = Operands(DecodedLine))

\* C1 happens: a SUBTRACT whose four operands are the largest their fields
\* hold has been decoded.
C1_Witness ==
    /\ locals.index >= 0
    /\ Mnemonic(DecodedLine) = <<"SUBTRACT">>
    /\ Operands(DecodedLine) = <<134217727, 134217727, 255, 134217727>>
    /\ locals.opcode = 38

\* C2: opcode closure. A word whose opcode field is none of 7, 12, 38, 53
\* halts execution with the error naming its index and opcode; that step
\* leaves memory, the trace and the index as the earlier instructions left
\* them, and nothing runs after a failure.
C2_OpcodeClosure ==
    [][ /\ (AtWord /\ DecodeOpcode(Instruction) \notin {7, 12, 38, 53}) =>
              /\ pc' = "failed"
              /\ error' = UnknownOpcode(DecodeOpcode(Instruction), index)
              /\ memory' = memory
              /\ exec_log' = exec_log
              /\ Len(exec_log) = index
              /\ index' = index
        /\ pc # "failed" ]_vars

\* C2 happens: execution failed on an unknown opcode after at least one
\* instruction had changed memory.
C2_Witness ==
    /\ pc = "failed"
    /\ error.type = "RuntimeError: Unknown opcode"
    /\ error.where >= 1
    /\ memory # ZeroMemory

\* C3: dump sparsity. The dump of a range 0 <= start <= end <= memory size
\* succeeds, holds exactly the non-zero cells of the range with their values,
\* and leaves memory unchanged; this holds of the range main passes and of
\* every other such range on the same memory.
C3_DumpSparsity ==
    [][ pc = "dump" =>
          /\ memory' = memory
          /\ (0 <= dump_range'[1] /\ dump_range'[1] <= dump_range'[2]
                /\ dump_range'[2] <= MemorySize) =>
                /\ pc' = "done"
                /\ SparseDumpOf(memory_dump', memory, dump_range'[1], dump_range'[2])
          /\ \A start \in 0..MemorySize : \A end \in start..MemorySize :
                SparseDumpOf(get_memory_dump(memory, start, end), memory, start, end)
      ]_vars

\* C3 happens: a dump over [0, 4) was taken of a memory with zero and
\* non-zero cells inside the range and a non-zero cell outside it.
C3_Witness ==
    /\ pc = "done"
    /\ dump_range = <<0, 4>>
    /\ Cardinality(DOMAIN memory_dump) >= 2
    /\ \E i \in 0..3 : memory[i] = 0
    /\ \E i \in 4..(MemorySize - 1) : memory[i] # 0

\* C4 as stated: whenever the first instruction line with an unrecognized
\* mnemonic is line n, assemble fails with the unknown-instruction error for
\* line n.
C4_AsStated ==
    LET n == FirstUnknownLine
    IN  (pc # "assemble" /\ n # 0) => UnknownInstructionAt(n)

\* C4 amended: the loop never goes past the first line with an unrecognized
\* mnemonic, and if every instruction line before it is well-formed, assemble
\* fails there with the unknown-instruction error carrying the mnemonic and
\* the 1-based line number, and main receives no word and no trace.
C4_UnknownMnemonic ==
    LET ls == Lines
        ps == InstructionLinesFrom(ls, 1)
        n  == FirstUnknownLine
    IN  n # 0 =>
          /\ line_no < n
          /\ (pc # "assemble"
                /\ \A k \in 1..Len(ps) : ps[k] < n => WellFormed(strip(ls[ps[k]])))
             => UnknownInstructionAt(n)

\* C4 happens: assemble failed on an unknown mnemonic on line 3 or later,
\* after a skipped line and an assembled instruction.
C4_Witness ==
    /\ pc = "failed"
    /\ error.type = "ValueError: Unknown instruction"
    /\ error.where >= 3
    /\ Len(asm_machine_code) >= 1
    /\ Len(InstructionLines) < Len(Lines)

\* C5: encoder output shape. When assemble returns, words and trace have the
\* length of the number of instruction lines; the i-th trace entry carries
\* the physical line number and stripped text of the i-th instruction line,
\* and the i-th word is what that line packs to.
C5_OutputShape ==
    AssembleReturned =>
        LET ls == Lines
            ps == InstructionLinesFrom(ls, 1)
        IN  /\ Len(machine_code) = Len(ps)
            /\ Len(log) = Len(machine_code)
            /\ \A i \in 1..Len(log) :
                  /\ log[i].line = ps[i]
                  /\ log[i].instruction = strip(ls[ps[i]])
                  /\ machine_code[i] = WordOf(strip(ls[ps[i]]))

\* C5 happens: assemble returned two instructions from a text of three
\* lines, the skipped line between them.
C5_Witness ==
    /\ AssembleReturned
    /\ Len(Lines) = 3
    /\ Len(log) = 2
    /\ log[1].line = 1
    /\ log[2].line = 3

C7_Subtract ==
    [][ /\ (AtWord /\ DecodeOpcode(Instruction) = 38 /\ index' = index + 1) =>
              /\ memory'[locals'.addr_b] =
                    memory[locals'.addr_c + locals'.offset_d] - memory[locals'.addr_e]
              /\ \A i \in DOMAIN memory \ {locals'.addr_b} : memory'[i] = memory[i]
        /\ (source_code = Scenario1 /\ pc' = "dump") => memory'[2] = 2
        /\ (source_code = Scenario1 /\ pc' = "done" /\ dump_range' = <<0, 4>>) =>
              /\ DOMAIN memory_dump' = {<<"address_", 0>>, <<"address_", 1>>,
                                        <<"address_", 2>>}
              /\ memory_dump'[<<"address_", 0>>] = 5
              /\ memory_dump'[<<"address_", 1>>] = 3
              /\ memory_dump'[<<"address_", 2>>] = 2 ]_vars

\* C7 happens: a subtraction with a non-zero offset has just overwritten one
\* of its own source cells with a negative result.
C7_Witness ==
    /\ locals.opcode = 38
    /\ Len(exec_log) = locals.index + 1
    /\ locals.offset_d > 0
    /\ locals.addr_b \in {locals.addr_c + locals.offset_d, locals.addr_e}
    /\ exec_log[Len(exec_log)].args[3] < 0
    /\ memory[locals.addr_b] = exec_log[Len(exec_log)].args[3]

\* C8: sequential causality. Trace entries are numbered in execution order;
\* right after a LOAD_MEMORY b a, if an earlier LOAD_CONSTANT a c has had no
\* write to cell a since, memory[b] = c; the second end-to-end program ends
\* with memory[1] = 10.
C8_SequentialCausality ==
    /\ \A i \in 1..Len(exec_log) : exec_log[i].index = i - 1
    /\ (Len(exec_log) >= 1 /\ exec_log[Len(exec_log)].op = "LOAD_MEMORY") =>
          LET n == Len(exec_log)
              a == exec_log[n].args[1]
              b == exec_log[n].args[2]
          IN  \A m \in 1..(n - 1) :
                 (/\ exec_log[m].op = "LOAD_CONSTANT"
                  /\ exec_log[m].args[2] = a
                  /\ \A k \in (m + 1)..(n - 1) : WrittenCell(exec_log[k]) # a)
                 => memory[b] = exec_log[m].args[1]
    /\ (source_code = Scenario2 /\ pc \in {"dump", "done"}) => memory[1] = 10

\* C8 happens: a LOAD_MEMORY has just copied a constant loaded two
\* instructions earlier, another instruction having run in between.
C8_Witness ==
    /\ Len(exec_log) >= 3
    /\ exec_log[Len(exec_log)].op = "LOAD_MEMORY"
    /\ exec_log[Len(exec_log) - 2].op = "LOAD_CONSTANT"
    /\ exec_log[Len(exec_log) - 2].args[2] = exec_log[Len(exec_log)].args[1]
    /\ WrittenCell(exec_log[Len(exec_log) - 1]) # exec_log[Len(exec_log)].args[1]
    /\ memory[exec_log[Len(exec_log)].args[2]] = exec_log[Len(exec_log) - 2].args[1]
    /\ memory[exec_log[Len(exec_log)].args[2]] # 0

\* C9 as stated: when a non-negative operand of the source line exceeds its
\* field, the interpreter still extracts the mnemonic's opcode, and every
\* operand it extracts is the source operand modulo 2^width.
C9_SilentTruncation ==
    locals.index >= 0 =>
        ((NonNegative(DecodedLine) /\ ~Fits(DecodedLine)) =>
            /\ locals.opcode = instructions[Mnemonic(DecodedLine)]
            /\ Extracted(Mnemonic(DecodedLine)) = Truncated(DecodedLine))

\* C10 as stated: in a run of a program whose operands all fit their
\* fields, no subscript of the memory array is negative.
C10_NonNegativeSubscripts ==
    (\A k \in 1..Len(log) : Fits(log[k].instruction)) =>
        \A i \in 1..Len(subscripts) : subscripts[i] >= 0

====
